---- MODULE Spec2Model ----
(***************************************************************************)
(* gcs-lock: a lease lock kept in one object of a versioned object store.  *)
(*                                                                         *)
(* The model has the store (one object per lock name of the clients'       *)
(* bucket, with its generation, metageneration, update time and the two    *)
(* metadata fields), the clients (GcsLock instances, each with its owner,  *)
(* its bucket and its TTLDict), and the threads that call acquire and      *)
(* release.  A call is cut into steps at its store requests and at its     *)
(* accesses to the TTLDict, so that other threads, other clients and the   *)
(* clock interleave wherever they can in the code.                         *)
(*                                                                         *)
(* One clock `now` stands for the store's clock (the object's `updated`),  *)
(* the clients' datetime.now() and time.monotonic(): the clocks are taken  *)
(* to be synchronised and to run at the same rate.                         *)
(***************************************************************************)
EXTENDS Integers, Sequences, FiniteSets, TLC

\* ---------------------------------------------------------------- bounds

\* The clock runs from 0 to MaxTime.
MaxTime == 2
\* Successful creates and updates of lock objects in one behaviour.
MaxWrites == 3

\* ------------------------------------------------------------ the universe

\* The bucket the clients are configured with, and another bucket name
ClientBucket == "b"
OtherBucket == "nb"
Buckets == {ClientBucket, OtherBucket}
LockNames == {"L"}
\* expires_seconds is any int in the code: a negative one and a positive one
TtlValues == {-1, 1}

\* GcsLock instances: c1 and c2 share the bucket and differ in owner
Clients == {"c1", "c2"}
\* the threads that call into the clients: two threads share client c1
Threads == {"t1", "t2", "t3"}

\* The GcsLock instance thread t calls into
ClientOf(t) == IF t = "t3" THEN "c2" ELSE "c1"

\* GcsLock.__init__: self._locked_owner
OwnerOf(c) == IF c = "c1" THEN "A" ELSE "B"

\* GcsLock.__init__: self._bucket
BucketOf(c) == ClientBucket

VARIABLES
    now,        \* the clock
    bucketExists, \* whether the store has the clients' bucket
    store,      \* lock name -> the object of that name in the bucket
    nextGen,    \* the generation the store gives the next object it creates
    writes,     \* successful creates and updates so far (bounds the behaviour)
    cache,      \* client -> its TTLDict: key -> entry
    th,         \* thread -> its position and locals
    issued,     \* the LockState objects acquire has returned (history)
    released,   \* ids of the LockStates a release of which returned (history)
    last        \* the step just taken: its name, thread, outcome and locals

vars == <<now, bucketExists, store, nextGen, writes, cache, th, issued, released, last>>

\* ------------------------------------------------------------- data model

\* No object at a key: the store's generation 0
NoObject ==
    [generation |-> 0, metageneration |-> 0, lock_owner |-> "",
     updated |-> 0, expires_sec |-> 0]

\* get_lock_info returning None; also an unset local
NoResponse ==
    [bucket |-> "", object_key |-> "", generation |-> 0, metageneration |-> 0,
     lock_owner |-> "", locked_at |-> 0, expires_sec |-> 0]

\* no LockState; `id` stands for the identity of a LockState object: the version
\* (generation, metageneration) its acquire wrote
NoLockState ==
    [bucket |-> "", lock_id |-> "", lock_owner |-> "", expires_at |-> 0,
     gcs_lock |-> "", id |-> <<0, 0>>]

\* a key that is not in TTLDict._ttl_dict
NoEntry == [present |-> FALSE, value |-> NoResponse, expires_at |-> 0]

\* Mutant: the metadata expires_sec read as it is written
ResponseToLockInfoUnclamped(b, l, obj) ==
    [bucket |-> b, object_key |-> l,
     generation |-> obj.generation, metageneration |-> obj.metageneration,
     lock_owner |-> obj.lock_owner, locked_at |-> obj.updated,
     expires_sec |-> obj.expires_sec]

\* _response_to_lock_info: the LockResponse parsed from an object resource;
\* a metadata expires_sec <= 0 is read as 0
ResponseToLockInfo(b, l, obj) ==
    [bucket |-> b, object_key |-> l,
     generation |-> obj.generation, metageneration |-> obj.metageneration,
     lock_owner |-> obj.lock_owner, locked_at |-> obj.updated,
     expires_sec |-> IF obj.expires_sec <= 0 THEN 0 ELSE obj.expires_sec]

\* LockResponse.expires_at
ExpiresAt(r) == r.locked_at + r.expires_sec

\* LockResponse.is_expired, evaluated at time t
IsExpired(r, t) == ExpiresAt(r) < t

\* Mutant: any owner may acquire at any time
CanBeAcquireByAnyone(r, owner, t) == TRUE

\* Mutant: only the recorded owner may acquire, expired or not
CanBeAcquireByOwnerOnly(r, owner, t) == owner = r.lock_owner

\* LockResponse.can_be_acquire_by, evaluated at time t
CanBeAcquireBy(r, owner, t) ==
    IF owner = r.lock_owner THEN TRUE ELSE IsExpired(r, t)

\* LockState.lock_state_id: f"{bucket}:{lock_id}"
LockStateId(ls) == <<ls.bucket, ls.lock_id>>

Keys == Buckets \X LockNames

\* ------------------------------------------------------------------ Init

IdleThread ==
    [pc |-> "idle", op |-> "none", lock_id |-> "", expires_seconds |-> 0,
     lock_info |-> NoResponse, response |-> NoResponse,
     lock_state |-> NoLockState, lock_instance |-> NoResponse,
     rdGen |-> 0, readAt |-> 0, status |-> 0, exc_type |-> "none"]

\* The record of a step: its action, its thread, the last store request the step
\* sent ("none": it sent none), what the call raised if the step ends a call
\* ("ok": it returned), and for a step of release the key of the LockState and
\* the status release_lock was answered with (0: no answer yet)
Event(step, t, req, result, key, status) ==
    [step |-> step, thread |-> t, req |-> req, result |-> result,
     key |-> key, status |-> status]

\* no key
NoKey == <<"", "">>

Init ==
    /\ now = 0
    /\ bucketExists \in BOOLEAN
    /\ store = [l \in LockNames |-> NoObject]
    /\ nextGen = 1
    /\ writes = 0
    /\ cache = [c \in Clients |-> [k \in Keys |-> NoEntry]]
    /\ th = [t \in Threads |-> IdleThread]
    /\ issued = {}
    /\ released = {}
    /\ last = Event("Init", "", "none", "none", NoKey, 0)

\* ---------------------------------------------------------------- TTLDict

\* Mutant: a lookup that returns entries past their expiry
TTLGetItemNoExpiry(d, k, t) ==
    [found |-> d[k].present, value |-> d[k].value, dict |-> d]

\* TTLDict.__getitem__ at monotonic time t: whether a value is returned (else
\* KeyError), the value, and the dict afterwards (an expired entry is popped)
TTLGetItem(d, k, t) ==
    IF ~d[k].present
    THEN [found |-> FALSE, value |-> NoResponse, dict |-> d]
    ELSE IF t < d[k].expires_at
         THEN [found |-> TRUE, value |-> d[k].value, dict |-> d]
         ELSE [found |-> FALSE, value |-> NoResponse,
               dict |-> [d EXCEPT ![k] = NoEntry]]

\* Mutant: the ttl of the tuple is dropped and the default ttl (60) is used
TTLSetItemDefaultTtl(d, k, value, ttl, t) ==
    [d EXCEPT ![k] = [present |-> TRUE, value |-> value, expires_at |-> t + 60]]

\* TTLDict.__setitem__ of the tuple (value, ttl) at monotonic time t
TTLSetItem(d, k, value, ttl, t) ==
    [d EXCEPT ![k] = [present |-> TRUE, value |-> value, expires_at |-> t + ttl]]

\* TTLDict.__delitem__: pop(key, None)
TTLDelItem(d, k) == [d EXCEPT ![k] = NoEntry]

\* ------------------------------------------------------ the store's answers

\* Mutant: the create sent without its precondition (as with force)
CreatePreconditionDropped(obj) == TRUE

\* acquire_lock's query parameter ifGenerationMatch = 0: the object must not exist
CreatePrecondition(obj) == obj.generation = 0

\* Mutant: the update sent without its precondition (as with force)
UpdatePreconditionDropped(obj, metageneration) == TRUE

\* update_lock's query parameter ifMetagenerationMatch = request.metageneration
UpdatePrecondition(obj, metageneration) == obj.metageneration = metageneration

\* Mutant: the delete sent with ifGenerationMatch only
DeletePreconditionGenerationOnly(obj, generation, metageneration) ==
    obj.generation = generation

\* Mutant: the delete conditioned on the metageneration alone
DeletePreconditionMetagenerationOnly(obj, generation, metageneration) ==
    obj.metageneration = metageneration

\* Mutant: the delete sent without its preconditions
DeletePreconditionDropped(obj, generation, metageneration) == TRUE

\* release_lock's query parameters ifGenerationMatch and ifMetagenerationMatch
DeletePrecondition(obj, generation, metageneration) ==
    /\ obj.generation = generation
    /\ obj.metageneration = metageneration

\* The status of acquire_lock's POST on object obj
CreateStatus(obj) == IF CreatePrecondition(obj) THEN 200 ELSE 412

\* The status of update_lock's PATCH on object obj
UpdateStatus(obj, metageneration) ==
    IF obj.generation = 0 THEN 404
    ELSE IF UpdatePrecondition(obj, metageneration) THEN 200 ELSE 412

\* The status of release_lock's DELETE on object obj
DeleteStatus(obj, generation, metageneration) ==
    IF obj.generation = 0 THEN 404
    ELSE IF DeletePrecondition(obj, generation, metageneration) THEN 204 ELSE 412

\* The object a successful acquire_lock creates: a new generation, metageneration
\* 1, the metadata of AcquireLockRequest.to_metadata
CreatedObject(owner, expires_sec, gen, t) ==
    [generation |-> gen, metageneration |-> 1, lock_owner |-> owner,
     updated |-> t, expires_sec |-> expires_sec]

\* The object after a successful update_lock: the same generation, the next
\* metageneration, the metadata of UpdateLockRequest.to_metadata
UpdatedObject(obj, owner, expires_sec, t) ==
    [generation |-> obj.generation, metageneration |-> obj.metageneration + 1,
     lock_owner |-> owner, updated |-> t, expires_sec |-> expires_sec]

\* ------------------------------------------------------------ the clock

Tick ==
    /\ now < MaxTime
    /\ now' = now + 1
    /\ last' = Event("Tick", "", "none", "none", NoKey, 0)
    /\ UNCHANGED <<bucketExists, store, nextGen, writes, cache, th, issued, released>>

\* ------------------------------------------------------------ acquire

\* acquire calls that have read and not yet written
WritesPending == Cardinality({u \in Threads : th[u].pc = "write"})

\* A call starts with fresh locals
Called(op, l, ttl, ls) ==
    [IdleThread EXCEPT !.op = op, !.lock_id = l, !.expires_seconds = ttl,
                       !.lock_state = ls]

\* The exceptions that `except GCSApiError` catches: the typed errors of the
\* lock (the class hierarchy is that of the error taxonomy)
GCSApiErrors ==
    {"BucketNotFoundError", "LockConflictError", "LockNotHeldError",
     "UnexpectedGCSResponseError"}

\* LockState.__exit__: what the caller sees when release returned ("ok") or
\* raised `result` and the block raised exc ("none": the block completed)
ExitOutcome(result, exc) ==
    IF result \in GCSApiErrors
    THEN IF exc # "none" THEN exc ELSE result
    ELSE IF result # "ok" THEN result
    ELSE IF exc # "none" THEN exc ELSE "ok"

\* What the call with locals `call` raises when its release returns or raises
\* `result`: a release that __exit__ called goes through __exit__
Raised(call, result) ==
    IF call.op = "exit" THEN ExitOutcome(result, call.exc_type) ELSE result

\* Thread t ends its call by raising (or returning) `result` in step `step`
Ends(t, step, req, result) ==
    /\ th' = [th EXCEPT ![t] = IdleThread]
    /\ last' = Event(step, t, req, result, LockStateId(th[t].lock_state),
                     th[t].status)

\* Thread t goes on to `pc` after step `step`, with locals `call`
Continues(t, step, req, pc, call) ==
    /\ th' = [th EXCEPT ![t] = [call EXCEPT !.pc = pc]]
    /\ last' = Event(step, t, req, "none", LockStateId(call.lock_state),
                     call.status)

\* acquire, _ensure_bucket_exists: bucket_exists answers 404
AcquireBucketNotFound(t, l, ttl) ==
    /\ th[t].pc = "idle"
    /\ ~bucketExists
    /\ Ends(t, "AcquireBucketNotFound", "bucket_exists", "BucketNotFoundError")
    /\ UNCHANGED <<now, bucketExists, store, nextGen, writes, cache, issued, released>>

\* acquire: bucket_exists or get_lock_info answers neither 200 nor 404
\* (raise_for_status, or RuntimeError)
AcquireReadFault(t, l, ttl) ==
    /\ th[t].pc = "idle"
    /\ \E req \in {"bucket_exists", "get_lock_info"} :
          /\ req = "get_lock_info" => bucketExists
          /\ Ends(t, "AcquireReadFault", req, "HTTPError")
    /\ UNCHANGED <<now, bucketExists, store, nextGen, writes, cache, issued, released>>

\* Mutant: acquire without _ensure_bucket_exists
AcquireGetUnchecked(t, l, ttl) ==
    /\ th[t].pc = "idle"
    /\ writes + WritesPending < MaxWrites
    /\ Continues(t, "AcquireGet", "get_lock_info", "write",
                 [Called("acquire", l, ttl, NoLockState)
                    EXCEPT !.rdGen = nextGen,
                           !.readAt = now,
                           !.lock_info =
                              IF store[l].generation = 0 THEN NoResponse
                              ELSE ResponseToLockInfo(BucketOf(ClientOf(t)), l, store[l])])
    /\ UNCHANGED <<now, bucketExists, store, nextGen, writes, cache, issued, released>>

\* acquire up to the read of _resolve_lock_response: the bucket exists,
\* get_lock_info answers 200 (the record) or 404 (None)
AcquireGet(t, l, ttl) ==
    /\ th[t].pc = "idle"
    /\ bucketExists
    /\ writes + WritesPending < MaxWrites
    /\ Continues(t, "AcquireGet", "get_lock_info", "write",
                 [Called("acquire", l, ttl, NoLockState)
                    EXCEPT !.rdGen = nextGen,
                           !.readAt = now,
                           !.lock_info =
                              IF store[l].generation = 0 THEN NoResponse
                              ELSE ResponseToLockInfo(BucketOf(ClientOf(t)), l, store[l])])
    /\ UNCHANGED <<now, bucketExists, store, nextGen, writes, cache, issued, released>>

\* _resolve_lock_response, lock_info is None: acquire_lock (create)
AcquireCreate(t) ==
    LET r == th[t]
        l == r.lock_id
        status == CreateStatus(store[l])
        obj == CreatedObject(OwnerOf(ClientOf(t)), r.expires_seconds, nextGen, now)
    IN  /\ r.pc = "write"
        /\ r.lock_info = NoResponse
        /\ \/ /\ status = 200
              /\ store' = [store EXCEPT ![l] = obj]
              /\ nextGen' = nextGen + 1
              /\ writes' = writes + 1
              /\ Continues(t, "AcquireCreate", "acquire_lock", "store",
                           [r EXCEPT !.response =
                                 ResponseToLockInfo(BucketOf(ClientOf(t)), l, obj)])
           \/ /\ status = 412
              /\ Ends(t, "AcquireCreate", "acquire_lock", "LockConflictError")
              /\ UNCHANGED <<store, nextGen, writes>>
        /\ UNCHANGED <<now, bucketExists, cache, issued, released>>

\* _resolve_lock_response, can_be_acquire_by holds: update_lock
AcquireUpdate(t) ==
    LET r == th[t]
        l == r.lock_id
        status == UpdateStatus(store[l], r.lock_info.metageneration)
        obj == UpdatedObject(store[l], OwnerOf(ClientOf(t)), r.expires_seconds, now)
    IN  /\ r.pc = "write"
        /\ r.lock_info # NoResponse
        /\ CanBeAcquireBy(r.lock_info, OwnerOf(ClientOf(t)), now)
        /\ \/ /\ status = 200
              /\ store' = [store EXCEPT ![l] = obj]
              /\ writes' = writes + 1
              /\ Continues(t, "AcquireUpdate", "update_lock", "store",
                           [r EXCEPT !.response =
                                 ResponseToLockInfo(BucketOf(ClientOf(t)), l, obj)])
           \/ /\ status = 412
              /\ Ends(t, "AcquireUpdate", "update_lock", "LockConflictError")
              /\ UNCHANGED <<store, writes>>
           \/ /\ status = 404
              /\ Ends(t, "AcquireUpdate", "update_lock",
                      "UnexpectedGCSResponseError")
              /\ UNCHANGED <<store, writes>>
        /\ UNCHANGED <<now, bucketExists, nextGen, cache, issued, released>>

\* _resolve_lock_response: the store answers the create or the update with a
\* status that is neither 200 nor 412 (nor, for the update, 404)
AcquireWriteFault(t) ==
    LET r == th[t]
    IN  /\ r.pc = "write"
        /\ r.lock_info # NoResponse =>
              CanBeAcquireBy(r.lock_info, OwnerOf(ClientOf(t)), now)
        /\ Ends(t, "AcquireWriteFault",
                IF r.lock_info = NoResponse THEN "acquire_lock" ELSE "update_lock",
                "UnexpectedGCSResponseError")
        /\ UNCHANGED <<now, bucketExists, store, nextGen, writes, cache, issued, released>>

\* Mutant: the record of the other owner is put in the table before the raise
AcquireConflictCaching(t) ==
    LET r == th[t]
        c == ClientOf(t)
    IN  /\ r.pc = "write"
        /\ r.lock_info # NoResponse
        /\ ~CanBeAcquireBy(r.lock_info, OwnerOf(c), now)
        /\ cache' = [cache EXCEPT ![c] =
                        TTLSetItem(@, <<BucketOf(c), r.lock_id>>, r.lock_info,
                                   r.lock_info.expires_sec, now)]
        /\ Ends(t, "AcquireConflict", "none", "LockConflictError")
        /\ UNCHANGED <<now, bucketExists, store, nextGen, writes, issued, released>>

\* _resolve_lock_response, the else branch: LockConflictError without a request
AcquireConflict(t) ==
    LET r == th[t]
    IN  /\ r.pc = "write"
        /\ r.lock_info # NoResponse
        /\ ~CanBeAcquireBy(r.lock_info, OwnerOf(ClientOf(t)), now)
        /\ Ends(t, "AcquireConflict", "none", "LockConflictError")
        /\ UNCHANGED <<now, bucketExists, store, nextGen, writes, cache, issued, released>>

\* The LockState acquire builds from the response
NewLockState(c, l, response) ==
    [bucket |-> BucketOf(c), lock_id |-> l, lock_owner |-> OwnerOf(c),
     expires_at |-> ExpiresAt(response), gcs_lock |-> c,
     id |-> <<response.generation, response.metageneration>>]

\* acquire after _resolve_lock_response returned: the LockState, the cache entry.
\* The caller keeps the LockState it is returned (keep), or drops it.
AcquireStore(t, keep) ==
    LET r == th[t]
        c == ClientOf(t)
        ls == NewLockState(c, r.lock_id, r.response)
    IN  /\ r.pc = "store"
        /\ cache' = [cache EXCEPT ![c] =
                        TTLSetItem(@, LockStateId(ls), r.response,
                                   r.response.expires_sec, now)]
        /\ issued' = IF keep THEN issued \cup {ls} ELSE issued
        /\ Ends(t, "AcquireStore", "none", "ok")
        /\ UNCHANGED <<now, bucketExists, store, nextGen, writes, released>>

\* ------------------------------------------------------------ release

\* LockStates built by a caller instead of returned by an acquire: one per key
\* (release reads the bucket and the lock_id of the LockState it is given)
Fabricated ==
    {[bucket |-> k[1], lock_id |-> k[2], lock_owner |-> "X", expires_at |-> 0,
      gcs_lock |-> "", id |-> <<0, 0>>] : k \in Keys}

\* release: the table has no live entry for the LockState's key
ReleaseNotHeld(t, ls) ==
    LET c == ClientOf(t)
        got == TTLGetItem(cache[c], LockStateId(ls), now)
    IN  /\ th[t].pc = "idle"
        /\ ~got.found
        /\ cache' = [cache EXCEPT ![c] = got.dict]
        /\ th' = [th EXCEPT ![t] = IdleThread]
        /\ last' = Event("ReleaseNotHeld", t, "none", "LockNotHeldError",
                         LockStateId(ls), 0)
        /\ UNCHANGED <<now, bucketExists, store, nextGen, writes, issued, released>>

\* release: the table returns the entry of the LockState's key
ReleaseLookup(t, ls) ==
    LET c == ClientOf(t)
        got == TTLGetItem(cache[c], LockStateId(ls), now)
    IN  /\ th[t].pc = "idle"
        /\ got.found
        /\ Continues(t, "ReleaseLookup", "none", "delete",
                     [Called("release", ls.lock_id, 0, ls)
                        EXCEPT !.lock_instance = got.value])
        /\ UNCHANGED <<now, bucketExists, store, nextGen, writes, cache, issued, released>>

\* release_lock: the conditional delete; 404 and 412 are logged and pass
ReleaseDelete(t) ==
    LET r == th[t]
        l == r.lock_state.lock_id
        status == DeleteStatus(store[l], r.lock_instance.generation,
                               r.lock_instance.metageneration)
        sent == [r EXCEPT !.status = status]
    IN  /\ r.pc = "delete"
        /\ \/ /\ status = 204
              /\ store' = [store EXCEPT ![l] = NoObject]
           \/ /\ status \in {404, 412}
              /\ UNCHANGED store
        /\ Continues(t, "ReleaseDelete", "release_lock", "uncache", sent)
        /\ UNCHANGED <<now, bucketExists, nextGen, writes, cache, issued, released>>

\* Mutant: release drops the table entry also when release_lock raises
ReleaseDeleteFaultUncaching(t) ==
    LET r == th[t]
    IN  /\ r.pc = "delete"
        /\ th' = [th EXCEPT ![t] = IdleThread]
        /\ cache' = [cache EXCEPT ![ClientOf(t)] =
                        TTLDelItem(@, LockStateId(r.lock_state))]
        /\ last' = Event("ReleaseDeleteFault", t, "release_lock",
                         Raised(r, "UnexpectedGCSResponseError"),
                         LockStateId(r.lock_state), 500)
        /\ UNCHANGED <<now, bucketExists, store, nextGen, writes, issued, released>>

\* release_lock: the store answers the delete with another status
ReleaseDeleteFault(t) ==
    LET r == th[t]
    IN  /\ r.pc = "delete"
        /\ th' = [th EXCEPT ![t] = IdleThread]
        /\ last' = Event("ReleaseDeleteFault", t, "release_lock",
                         Raised(r, "UnexpectedGCSResponseError"),
                         LockStateId(r.lock_state), 500)
        /\ UNCHANGED <<now, bucketExists, store, nextGen, writes, cache, issued, released>>

\* release after release_lock returned: del self._manage_lock_state_table[id]
ReleaseUncache(t) ==
    LET r == th[t]
        c == ClientOf(t)
    IN  /\ r.pc = "uncache"
        /\ cache' = [cache EXCEPT ![c] = TTLDelItem(@, LockStateId(r.lock_state))]
        /\ released' = IF r.lock_state \in issued
                       THEN released \cup {r.lock_state.id} ELSE released
        /\ Ends(t, "ReleaseUncache", "none", Raised(r, "ok"))
        /\ UNCHANGED <<now, bucketExists, store, nextGen, writes, issued>>

\* ------------------------------------------------- scoped acquisition

\* The exceptions a protected block ends with ("none": it completed)
BlockOutcomes == {"none", "BlockError"}

\* LockState.__exit__ is called on ls after the block ended with exc
ExitEnter(t, ls, exc) ==
    /\ th[t].pc = "idle"
    /\ Continues(t, "ExitEnter", "none", "exit",
                 [Called("exit", ls.lock_id, 0, ls) EXCEPT !.exc_type = exc])
    /\ UNCHANGED <<now, bucketExists, store, nextGen, writes, cache, issued, released>>

\* __exit__, release: the table has no live entry for the LockState's key
ExitNotHeld(t) ==
    LET r == th[t]
        c == ClientOf(t)
        got == TTLGetItem(cache[c], LockStateId(r.lock_state), now)
    IN  /\ r.pc = "exit"
        /\ ~got.found
        /\ cache' = [cache EXCEPT ![c] = got.dict]
        /\ Ends(t, "ExitNotHeld", "none", Raised(r, "LockNotHeldError"))
        /\ UNCHANGED <<now, bucketExists, store, nextGen, writes, issued, released>>

\* __exit__, release: the table returns the entry of the LockState's key
ExitLookup(t) ==
    LET r == th[t]
        c == ClientOf(t)
        got == TTLGetItem(cache[c], LockStateId(r.lock_state), now)
    IN  /\ r.pc = "exit"
        /\ got.found
        /\ Continues(t, "ExitLookup", "none", "delete",
                     [r EXCEPT !.lock_instance = got.value])
        /\ UNCHANGED <<now, bucketExists, store, nextGen, writes, cache, issued, released>>

\* release_lock: the session raises instead of returning a response (the
\* transport failed); the exception is none of the lock's typed errors
ReleaseTransportFault(t) ==
    LET r == th[t]
    IN  /\ r.pc = "delete"
        /\ Ends(t, "ReleaseTransportFault", "release_lock",
                Raised(r, "TransportError"))
        /\ UNCHANGED <<now, bucketExists, store, nextGen, writes, cache, issued, released>>

\* ------------------------------------------------------------ the system

\* One step of an acquire of thread t; `keep`: whether the caller keeps the
\* LockState it gets
AcquireStep(t, keep) ==
    \/ \E l \in LockNames, ttl \in TtlValues :
          \/ AcquireBucketNotFound(t, l, ttl)
          \/ AcquireReadFault(t, l, ttl)
          \/ AcquireGet(t, l, ttl)
    \/ AcquireCreate(t)
    \/ AcquireUpdate(t)
    \/ AcquireWriteFault(t)
    \/ AcquireConflict(t)
    \/ AcquireStore(t, keep)

\* One step of a release of thread t
ReleaseStep(t) ==
    \/ \E ls \in issued \cup Fabricated :
          \/ ReleaseNotHeld(t, ls)
          \/ ReleaseLookup(t, ls)
    \/ ReleaseDelete(t)
    \/ ReleaseDeleteFault(t)
    \/ ReleaseUncache(t)

\* One step of thread t
ThreadStep(t, keep) == AcquireStep(t, keep) \/ ReleaseStep(t)

\* One step of a scope exit of thread t
ExitStep(t) ==
    \/ \E ls \in issued \cup Fabricated, exc \in BlockOutcomes : ExitEnter(t, ls, exc)
    \/ ExitNotHeld(t)
    \/ ExitLookup(t)
    \/ ReleaseDelete(t)
    \/ ReleaseDeleteFault(t)
    \/ ReleaseTransportFault(t)
    \/ ReleaseUncache(t)

\* Two processes, one thread each
Next == Tick \/ \E t \in {"t1", "t3"} : ThreadStep(t, FALSE)

Spec == Init /\ [][Next]_vars

\* Two threads of one process and another process
NextThreads == Tick \/ \E t \in Threads : ThreadStep(t, FALSE)

SpecThreads == Init /\ [][NextThreads]_vars

\* Two processes whose callers keep their LockStates
NextHandles == Tick \/ \E t \in {"t1", "t3"} : ThreadStep(t, TRUE)

SpecHandles == Init /\ [][NextHandles]_vars

\* A process that releases on scope exit, and a second process that acquires
NextScoped ==
    Tick \/ AcquireStep("t1", FALSE) \/ ExitStep("t1") \/ AcquireStep("t3", FALSE)

SpecScoped == Init /\ [][NextScoped]_vars

\* A process that acquires and never releases (it may stop for good at any
\* point, as a process that crashes does) and a second process; time passes
NextAbandon == Tick \/ AcquireStep("t1", FALSE) \/ ThreadStep("t3", FALSE)

SpecAbandon == Init /\ [][NextAbandon]_vars /\ WF_vars(Tick)

\* ------------------------------------------------------------ properties

\* Thread t takes step `step`
Takes(t, step) == last'.thread = t /\ last'.step = step

\* The (generation, metageneration) of an object or of a LockResponse
Tokens(x) == <<x.generation, x.metageneration>>

\* C1: of the processes that read 'absent' and then send their create, the first
\* one served creates the object; every racer served after it, while the
\* winner's object is in place, fails with LockConflict, changes nothing in the
\* store and gets neither a LockState nor a cache entry.
C1_CreateRace ==
    [][\A t \in Threads :
          (th[t].pc = "write" /\ th[t].lock_info = NoResponse
              /\ Takes(t, "AcquireCreate")) =>
            LET l == th[t].lock_id
            IN  /\ nextGen = th[t].rdGen =>
                      /\ th'[t].pc = "store"
                      /\ store'[l].generation = nextGen
                      /\ store'[l].lock_owner = OwnerOf(ClientOf(t))
                /\ (store[l].generation # 0 /\ store[l].generation >= th[t].rdGen) =>
                      /\ last'.result = "LockConflictError"
                      /\ th'[t] = IdleThread
                      /\ store' = store
                      /\ cache' = cache
                      /\ issued' = issued]_vars

\* C1 witness: a racer has just lost the create to a winner that has not yet
\* returned from its acquire
C1_RaceLost ==
    \E t \in Threads, u \in Threads :
        /\ t # u
        /\ last.thread = t /\ last.step = "AcquireCreate"
        /\ last.result = "LockConflictError"
        /\ th[u].pc = "store" /\ th[u].response.metageneration = 1
        /\ Tokens(store[th[u].lock_id]) = Tokens(th[u].response)
        /\ \A k \in Keys : ~cache[ClientOf(t)][k].present

\* C2 (the claim as stated): an update that is served when the object is no
\* longer the version the caller read (renewed, taken over, or deleted and
\* created again) fails with LockConflict and leaves the object as it is.
C2_NoLostUpdate ==
    [][\A t \in Threads :
          (th[t].pc = "write" /\ Takes(t, "AcquireUpdate")
              /\ store[th[t].lock_id].generation # 0
              /\ Tokens(store[th[t].lock_id]) # Tokens(th[t].lock_info)) =>
            /\ last'.result = "LockConflictError"
            /\ store' = store]_vars

\* C3 (the claim as stated): the record B's acquire read is owned by another
\* owner and was unexpired at the time of the read; then the acquire fails with
\* LockConflict without a write and the store is unchanged.
C3_ConflictIfUnexpiredAtRead ==
    [][\A t \in Threads :
          (th[t].pc = "write" /\ last'.thread = t
              /\ th[t].lock_info # NoResponse
              /\ th[t].lock_info.lock_owner # OwnerOf(ClientOf(t))
              /\ th[t].readAt <= th[t].lock_info.locked_at
                                    + th[t].lock_info.expires_sec) =>
            /\ last'.step = "AcquireConflict"
            /\ last'.result = "LockConflictError"
            /\ last'.req = "none"
            /\ store' = store]_vars

\* C3 (amended): the record B's acquire read is owned by another owner and is
\* unexpired when the acquire evaluates can_be_acquire_by on it, after the read
\* has returned; then the acquire fails with LockConflict, sends no write and
\* changes neither the store nor the cache.
C3_ConflictIfUnexpired ==
    [][\A t \in Threads :
          (th[t].pc = "write" /\ last'.thread = t
              /\ th[t].lock_info # NoResponse
              /\ th[t].lock_info.lock_owner # OwnerOf(ClientOf(t))
              /\ now <= th[t].lock_info.locked_at + th[t].lock_info.expires_sec) =>
            /\ last'.step = "AcquireConflict"
            /\ last'.result = "LockConflictError"
            /\ last'.req = "none"
            /\ th'[t] = IdleThread
            /\ store' = store
            /\ cache' = cache]_vars

\* C3 witness: an acquire has just failed on the unexpired lease of another owner
C3_Refused ==
    \E t \in Threads, l \in LockNames :
        /\ last.thread = t /\ last.step = "AcquireConflict"
        /\ last.result = "LockConflictError"
        /\ store[l].generation # 0
        /\ store[l].lock_owner # OwnerOf(ClientOf(t))
        /\ store[l].expires_sec > 0
        /\ now <= store[l].updated + store[l].expires_sec

\* The record of lock l as a read of the store returns it now
Record(l) == ResponseToLockInfo(ClientBucket, l, store[l])

\* The owners of the clients
Owners == {OwnerOf(c) : c \in Clients}

\* C4: takeover.  When the record B's acquire read is owned by another owner, has
\* expired (now > locked_at + expires_sec) and is still the version in the store
\* when the store serves B's update (no concurrent writer), the update succeeds,
\* the object is owned by B and the acquire returns with a cache entry.  The
\* object changes only in a step that sends a write or a delete, and a read
\* returns the owner the store holds, so later reads show B until the next
\* write.  And as time passes a lease that ends before the clock's bound leads
\* to a state where every owner can acquire it, unless a process sends a write
\* or a delete first (the lease is then not abandoned).
C4_Takeover ==
    /\ [][/\ \A t \in Threads :
               LET l == th[t].lock_id
                   c == ClientOf(t)
               IN  /\ (th[t].pc = "write" /\ last'.thread = t
                         /\ last'.step # "AcquireWriteFault"
                         /\ th[t].lock_info # NoResponse
                         /\ th[t].lock_info.lock_owner # OwnerOf(c)
                         /\ now > th[t].lock_info.locked_at
                                     + th[t].lock_info.expires_sec
                         /\ Tokens(store[l]) = Tokens(th[t].lock_info)) =>
                        /\ last'.step = "AcquireUpdate"
                        /\ th'[t].pc = "store"
                        /\ store'[l].lock_owner = OwnerOf(c)
                        /\ store'[l].generation = store[l].generation
                        /\ store'[l].metageneration = store[l].metageneration + 1
                        /\ Tokens(th'[t].response) = Tokens(store'[l])
                   /\ (th[t].pc = "store" /\ last'.thread = t) =>
                        /\ last'.step = "AcquireStore"
                        /\ last'.result = "ok"
                        /\ cache'[c][<<BucketOf(c), l>>].present
                        /\ cache'[c][<<BucketOf(c), l>>].value = th[t].response
                   /\ Takes(t, "AcquireGet") =>
                        /\ th'[t].lock_info.lock_owner
                              = store[th'[t].lock_id].lock_owner
                        /\ Tokens(th'[t].lock_info) = Tokens(store[th'[t].lock_id])
          /\ store' # store =>
                last'.req \in {"acquire_lock", "update_lock", "release_lock"}]_vars
    /\ \A l \in LockNames :
          (store[l].generation # 0 /\ ExpiresAt(Record(l)) < MaxTime)
             ~> (\/ \A o \in Owners : CanBeAcquireBy(Record(l), o, now)
                 \/ last.req \in {"acquire_lock", "update_lock", "release_lock"})

\* C4 witness: B's update has just taken over the expired lease of A
C4_TakenOver ==
    \E t \in Threads :
        /\ last.thread = t /\ last.step = "AcquireUpdate"
        /\ th[t].pc = "store"
        /\ th[t].lock_info.lock_owner # OwnerOf(ClientOf(t))
        /\ th[t].lock_info.lock_owner # ""
        /\ ExpiresAt(th[t].lock_info) < now
        /\ store[th[t].lock_id].lock_owner = OwnerOf(ClientOf(t))
        /\ Tokens(store[th[t].lock_id]) = Tokens(th[t].response)

\* max(ttl, 0)
NonNegative(ttl) == IF ttl <= 0 THEN 0 ELSE ttl

LiveEntry(c, k) == cache[c][k].present /\ now < cache[c][k].expires_at

\* Thread t starts a release in this step
StartsRelease(t) ==
    /\ th[t].pc = "idle"
    /\ last'.thread = t
    /\ last'.step \in {"ReleaseNotHeld", "ReleaseLookup"}

\* C6: a release that finds no live entry for the key of its LockState (none
\* was inserted, a release removed it, or it is past its expiry) raises
\* LockNotHeld, sends no request and leaves the store as it is.
C6_NotHeld ==
    [][\A t \in Threads :
          (StartsRelease(t) /\ ~LiveEntry(ClientOf(t), last'.key)) =>
            /\ last'.step = "ReleaseNotHeld"
            /\ last'.result = "LockNotHeldError"
            /\ last'.req = "none"
            /\ th'[t] = IdleThread
            /\ store' = store]_vars

\* C6 witness: a release has just raised LockNotHeld for a lock whose object in
\* the store is the client's own: the entry had passed its expiry
C6_RefusedPastTtl ==
    \E t \in Threads :
        /\ last.thread = t /\ last.step = "ReleaseNotHeld"
        /\ last.result = "LockNotHeldError"
        /\ last.key \in Keys
        /\ last.key[1] = BucketOf(ClientOf(t))
        /\ store[last.key[2]].generation # 0
        /\ store[last.key[2]].lock_owner = OwnerOf(ClientOf(t))

\* C7 (the claim as stated): a release that is given a LockState which no acquire
\* of this client returned raises LockNotHeld: it never gets as far as the
\* lookup succeeding.
C7_ForeignHandleRefused ==
    [][\A t \in Threads :
          Takes(t, "ReleaseLookup") =>
             th'[t].lock_state.gcs_lock = ClientOf(t)]_vars

\* C8: a release whose delete the store serves when the object is absent (404) or
\* is not the version of the cache entry (412) leaves the store as it is, goes
\* on to remove the entry of its key and returns without raising.
C8_BenignMiss ==
    [][\A t \in Threads :
          LET l == th[t].lock_state.lock_id
              c == ClientOf(t)
          IN  /\ (th[t].pc = "delete" /\ last'.thread = t
                    /\ last'.step # "ReleaseDeleteFault"
                    /\ Tokens(store[l]) # Tokens(th[t].lock_instance)) =>
                   /\ last'.step = "ReleaseDelete"
                   /\ last'.status =
                         (IF store[l].generation = 0 THEN 404 ELSE 412)
                   /\ th'[t].pc = "uncache"
                   /\ th'[t].status = last'.status
                   /\ store' = store
                   /\ cache' = cache
              /\ (th[t].pc = "uncache" /\ last'.thread = t
                    /\ th[t].status \in {404, 412}) =>
                   /\ last'.step = "ReleaseUncache"
                   /\ last'.result = "ok"
                   /\ last'.status = th[t].status
                   /\ ~cache'[c][LockStateId(th[t].lock_state)].present
                   /\ th'[t] = IdleThread
                   /\ store' = store]_vars

\* C8 witness: a release has just returned after the store answered its delete
\* with 412, the object of another owner is in place and the entry is gone
C8_MissReturned ==
    \E t \in Threads :
        /\ last.thread = t /\ last.step = "ReleaseUncache"
        /\ last.result = "ok" /\ last.status = 412
        /\ ~cache[ClientOf(t)][last.key].present
        /\ store[last.key[2]].generation # 0
        /\ store[last.key[2]].lock_owner # OwnerOf(ClientOf(t))

\* C9: when the store answers the delete with a status other than 204, 404 and
\* 412, release raises the backend error, and the table and the store are as
\* they were: the entry of the key is there with the record release read from
\* it, so that a release tried again sends the same generation and
\* metageneration.
C9_FaultKeepsEntry ==
    [][\A t \in Threads :
          (th[t].pc = "delete" /\ Takes(t, "ReleaseDeleteFault")) =>
            LET k == LockStateId(th[t].lock_state)
                c == ClientOf(t)
            IN  /\ last'.result = "UnexpectedGCSResponseError"
                /\ last'.req = "release_lock"
                /\ last'.status \notin {204, 404, 412}
                /\ th'[t] = IdleThread
                /\ cache' = cache
                /\ store' = store
                /\ cache'[c][k].present
                /\ cache'[c][k].value = th[t].lock_instance]_vars

\* C9 witness: a release has just raised the backend error and the entry of its
\* key is in the table, live, with the tokens of the object
C9_FaultRaised ==
    \E t \in Threads :
        /\ last.thread = t /\ last.step = "ReleaseDeleteFault"
        /\ last.result = "UnexpectedGCSResponseError"
        /\ LiveEntry(ClientOf(t), last.key)
        /\ Tokens(cache[ClientOf(t)][last.key].value) = Tokens(store[last.key[2]])
        /\ store[last.key[2]].generation # 0

\* C10 (the claim as stated): once a release of a LockState that an acquire
\* returned has itself returned, the delete of a later release of the same
\* LockState deletes nothing in the store and raises no backend error.
C10_ReleasedHandleIsSpent ==
    [][\A t \in Threads :
          (th[t].pc = "delete" /\ last'.thread = t
              /\ th[t].lock_state \in issued
              /\ th[t].lock_state.id \in released) =>
            /\ store' = store
            /\ last'.result # "UnexpectedGCSResponseError"]_vars

\* Client c's table has an entry (live or past its expiry) for lock l that c's
\* own acquire recorded, and since then another owner has taken the object over
\* by an update: same generation, later metageneration, another owner
TakenOverFrom(c, l) ==
    LET e == cache[c][<<BucketOf(c), l>>]
    IN  /\ e.present
        /\ e.value.lock_owner = OwnerOf(c)
        /\ store[l].generation = e.value.generation
        /\ store[l].metageneration > e.value.metageneration
        /\ store[l].lock_owner # OwnerOf(c)

\* C11 (the claim as stated): after A acquired with a ttl T > 0 and B took the
\* expired lease over, A's release raises no exception.
C11_ReleaseAfterTakeoverSilent ==
    [][\A t \in Threads, l \in LockNames :
          (StartsRelease(t) /\ last'.key = <<BucketOf(ClientOf(t)), l>>
              /\ TakenOverFrom(ClientOf(t), l)
              /\ cache[ClientOf(t)][last'.key].value.expires_sec > 0) =>
            last'.result # "LockNotHeldError"]_vars

\* C11 (amended): after A acquired and B took the expired lease over, A's
\* release raises LockNotHeld without a request when A's cache entry is past its
\* expiry; when the entry is still live, the delete is sent with A's tokens, the
\* store answers 412 and the release returns without raising.  In both cases
\* B's object stays in the store as it is.
C11_ReleaseAfterTakeover ==
    [][\A t \in Threads :
          LET c == ClientOf(t)
          IN  /\ \A l \in LockNames :
                   (StartsRelease(t) /\ last'.key = <<BucketOf(c), l>>
                       /\ TakenOverFrom(c, l)) =>
                     /\ store' = store
                     /\ LiveEntry(c, last'.key) =>
                           /\ last'.step = "ReleaseLookup"
                           /\ th'[t].lock_instance = cache[c][last'.key].value
                     /\ ~LiveEntry(c, last'.key) =>
                           /\ last'.result = "LockNotHeldError"
                           /\ last'.req = "none"
              /\ (th[t].pc = "delete" /\ last'.thread = t
                    /\ last'.step # "ReleaseDeleteFault"
                    /\ th[t].lock_instance.lock_owner = OwnerOf(c)
                    /\ store[th[t].lock_state.lock_id].generation # 0
                    /\ store[th[t].lock_state.lock_id].lock_owner # OwnerOf(c)) =>
                   /\ last'.status = 412
                   /\ th'[t].pc = "uncache"
                   /\ store' = store
              /\ (th[t].pc = "uncache" /\ last'.thread = t
                    /\ th[t].status = 412) =>
                   /\ last'.result = "ok"
                   /\ store' = store]_vars

\* C11 witness: A's release has just been answered 412 for the object that B
\* took over from A by an update
C11_LostToTakeover ==
    \E t \in Threads :
        LET l == th[t].lock_state.lock_id
        IN  /\ last.thread = t /\ last.step = "ReleaseDelete"
            /\ last.status = 412
            /\ th[t].pc = "uncache"
            /\ th[t].lock_instance.lock_owner = OwnerOf(ClientOf(t))
            /\ store[l].generation = th[t].lock_instance.generation
            /\ store[l].metageneration > th[t].lock_instance.metageneration
            /\ store[l].lock_owner # OwnerOf(ClientOf(t))

\* C12 (the claim as stated): whenever a table returns a live entry for a key,
\* the lease the entry records (locked_at + expires_sec) has not expired.
C12_CacheWithinLease ==
    \A c \in Clients, k \in Keys :
        LiveEntry(c, k) => now <= ExpiresAt(cache[c][k].value)

\* The ttls and the times TTLDict is tried with
TtlRange == -1 .. 2
TimeRange == 0 .. MaxTime + 2

\* The three operations of TTLDict on table d0 at time s, for every key and ttl
TtlDictLaw(d0, s) ==
    \A k \in Keys, ttl \in TtlRange :
        LET v == Record(k[2])
            d == TTLSetItem(d0, k, v, ttl, s)
            gone == TTLDelItem(d, k)
        IN  /\ \A u \in TimeRange :
                  LET got == TTLGetItem(d, k, u)
                  IN  /\ u < s + ttl =>
                           got.found /\ got.value = v /\ got.dict = d
                      /\ u >= s + ttl =>
                           ~got.found /\ got.dict = gone
            /\ ~gone[k].present
            /\ \A j \in Keys \ {k} : gone[j] = d0[j]
            /\ TTLDelItem(gone, k) = gone

\* C13: TTLDict.  A set at time s with ttl stores the value with the expiry
\* s + ttl; a get before the expiry returns the value and leaves the table; a
\* get at or after the expiry reports the key absent and removes the entry; a
\* delete removes the entry and does so without an error when the key is absent.
\* This holds of the set, the get and the delete that acquire and release do,
\* and of the three operations on every table the clients reach, at every time.
C13_TtlDict ==
    [][/\ \A t \in Threads :
             LET c == ClientOf(t)
             IN  /\ Takes(t, "AcquireStore") =>
                      LET k == <<BucketOf(c), th[t].lock_id>>
                      IN  /\ cache'[c][k] =
                                [present |-> TRUE, value |-> th[t].response,
                                 expires_at |-> now + th[t].response.expires_sec]
                          /\ \A j \in Keys \ {k} : cache'[c][j] = cache[c][j]
                 /\ StartsRelease(t) =>
                      LET e == cache[c][last'.key]
                      IN  /\ (e.present /\ now < e.expires_at) =>
                                /\ last'.step = "ReleaseLookup"
                                /\ th'[t].lock_instance = e.value
                                /\ cache' = cache
                          /\ (e.present /\ now >= e.expires_at) =>
                                /\ last'.step = "ReleaseNotHeld"
                                /\ cache'[c] = [cache[c] EXCEPT ![last'.key] = NoEntry]
                          /\ ~e.present =>
                                /\ last'.step = "ReleaseNotHeld"
                                /\ cache' = cache
                 /\ Takes(t, "ReleaseUncache") =>
                      cache'[c] = [cache[c] EXCEPT
                                      ![LockStateId(th[t].lock_state)] = NoEntry]
       /\ \A c \in Clients :
             /\ last.step = "Init" => TtlDictLaw(cache[c], now)
             /\ (cache'[c] # cache[c] \/ now' # now) =>
                   TtlDictLaw(cache'[c], now')]_vars

\* C13 witness: a release has just been returned the entry of its key, some
\* time after the entry was set and before its expiry
C13_ReturnedBeforeExpiry ==
    \E t \in Threads :
        /\ last.thread = t /\ last.step = "ReleaseLookup"
        /\ now > 0
        /\ LiveEntry(ClientOf(t), last.key)
        /\ cache[ClientOf(t)][last.key].expires_at = now + 1
        /\ th[t].lock_instance = cache[ClientOf(t)][last.key].value

\* Thread t starts an acquire in this step
StartsAcquire(t) ==
    /\ th[t].pc = "idle"
    /\ last'.thread = t
    /\ last'.step \in {"AcquireBucketNotFound", "AcquireReadFault", "AcquireGet"}

\* C14: an acquire on a client whose bucket does not exist, when the store
\* answers bucket_exists, raises BucketNotFound after that one request: it sends
\* no read or write of the lock object, builds no LockState and leaves the
\* table as it is.  No acquire gets past the check while the bucket is missing.
C14_BucketNotFound ==
    [][\A t \in Threads :
          (StartsAcquire(t) /\ ~bucketExists
              /\ last'.step # "AcquireReadFault") =>
            /\ last'.step = "AcquireBucketNotFound"
            /\ last'.result = "BucketNotFoundError"
            /\ last'.req = "bucket_exists"
            /\ th'[t] = IdleThread
            /\ cache' = cache
            /\ store' = store
            /\ issued' = issued]_vars

\* C14 witness: an acquire has just raised BucketNotFound; nothing is in the
\* store or in the tables
C14_Refused ==
    /\ last.step = "AcquireBucketNotFound"
    /\ last.result = "BucketNotFoundError"
    /\ ~bucketExists
    /\ \A l \in LockNames : store[l] = NoObject
    /\ \A c \in Clients, k \in Keys : ~cache[c][k].present

\* The exception release raises in the step that ends it ("ok": it returns)
ReleaseResult(step) ==
    IF step = "ExitNotHeld" THEN "LockNotHeldError"
    ELSE IF step = "ReleaseDeleteFault" THEN "UnexpectedGCSResponseError"
    ELSE IF step = "ReleaseTransportFault" THEN "TransportError"
    ELSE "ok"

\* The steps that end a scope exit
ExitEnds == {"ExitNotHeld", "ReleaseDeleteFault", "ReleaseTransportFault",
             "ReleaseUncache"}

\* C15 (the claim as stated): scoped acquisition.  A scope exit makes one release
\* attempt: one lookup of the table, then at most one delete request, then the
\* exit ends.  When the block failed, the exit raises the block's exception,
\* whether the release returned or raised; when the block completed, the exit
\* raises what the release raised, and returns when the release returned.
C15_ScopeExit ==
    [][\A t \in Threads :
          (th[t].op = "exit" /\ last'.thread = t) =>
            /\ th[t].pc = "exit" => last'.step \in {"ExitNotHeld", "ExitLookup"}
            /\ th[t].pc = "delete" => last'.req = "release_lock"
            /\ th[t].pc = "uncache" => last'.step = "ReleaseUncache"
            /\ last'.step \in ExitEnds <=> th'[t] = IdleThread
            /\ last'.step \notin ExitEnds =>
                  /\ th'[t].op = "exit"
                  /\ th'[t].exc_type = th[t].exc_type
                  /\ th'[t].lock_state = th[t].lock_state
                  /\ th'[t].pc = (IF last'.step = "ExitLookup" THEN "delete"
                                  ELSE "uncache")
            /\ th'[t] = IdleThread =>
                  /\ th[t].exc_type # "none" => last'.result = th[t].exc_type
                  /\ th[t].exc_type = "none" =>
                        last'.result = ReleaseResult(last'.step)]_vars

\* Thread t takes a step of an acquire
StepsAcquire(t) ==
    /\ last'.thread = t
    /\ th[t].op = "acquire" \/ StartsAcquire(t)

\* C16: every acquire that fails (BucketNotFound, LockConflict without a write,
\* LockConflict from a failed precondition, an unexpected answer of the store)
\* leaves the tables of all clients exactly as they were at each of its steps:
\* no entry is added and the entries that are there keep record and expiry.
\* Only the last step of an acquire that succeeds writes the table.
C16_FailedAcquireKeepsCache ==
    [][\A t \in Threads :
          StepsAcquire(t) =>
            /\ last'.result \notin {"none", "ok"} =>
                  /\ cache' = cache
                  /\ th'[t] = IdleThread
                  /\ issued' = issued
            /\ last'.result = "none" => cache' = cache
            /\ cache' # cache =>
                  /\ last'.step = "AcquireStore"
                  /\ last'.result = "ok"]_vars

\* C16 witness: an acquire has just failed with LockConflict without a write
\* while the table of its client has the entry of an earlier acquire for the lock
C16_FailedWithEntry ==
    \E t \in Threads :
        /\ last.thread = t /\ last.step = "AcquireConflict"
        /\ last.result = "LockConflictError"
        /\ \E l \in LockNames :
              LET e == cache[ClientOf(t)][<<BucketOf(ClientOf(t)), l>>]
              IN  /\ e.present
                  /\ e.value.lock_owner = OwnerOf(ClientOf(t))
                  /\ store[l].lock_owner # OwnerOf(ClientOf(t))

\* C17: an acquire reads the lock object once and then takes exactly one more
\* step on the store: a create when the read found no object, an update
\* conditioned on the metageneration it read when the record can be acquired,
\* and no request otherwise.  The write succeeds exactly when its precondition
\* holds of the object at that moment; when the object is there and the
\* precondition fails, the call ends with LockConflict.  After the write the
\* call sends nothing more: it ends, or it stores the response and ends.
C17_OneReadOneWrite ==
    [][\A t \in Threads :
          StepsAcquire(t) =>
            LET l == th[t].lock_id
                info == th[t].lock_info
                served == last'.step \notin {"AcquireReadFault", "AcquireWriteFault"}
            IN  /\ th[t].pc = "idle" =>
                      /\ last'.req \in {"bucket_exists", "get_lock_info"}
                      /\ store' = store
                      /\ th'[t].pc \in {"idle", "write"}
                      /\ th'[t].pc = "write" <=> last'.step = "AcquireGet"
                /\ th[t].pc = "write" =>
                      /\ th'[t].pc \in {"idle", "store"}
                      /\ last'.req =
                            (IF info = NoResponse THEN "acquire_lock"
                             ELSE IF CanBeAcquireBy(info, OwnerOf(ClientOf(t)), now)
                                  THEN "update_lock" ELSE "none")
                      /\ (served /\ last'.req = "acquire_lock") =>
                            /\ th'[t].pc = "store" <=> store[l].generation = 0
                            /\ store[l].generation # 0 =>
                                  last'.result = "LockConflictError"
                      /\ (served /\ last'.req = "update_lock") =>
                            /\ th'[t].pc = "store" <=>
                                  /\ store[l].generation # 0
                                  /\ store[l].metageneration = info.metageneration
                            /\ (/\ store[l].generation # 0
                                /\ store[l].metageneration # info.metageneration) =>
                                  last'.result = "LockConflictError"
                      /\ last'.req = "none" => last'.result = "LockConflictError"
                      /\ th'[t].pc = "idle" =>
                            /\ th'[t] = IdleThread
                            /\ store' = store
                            /\ last'.result # "ok"
                /\ th[t].pc = "store" =>
                      /\ last'.req = "none"
                      /\ last'.result = "ok"
                      /\ store' = store
                      /\ th'[t] = IdleThread]_vars

\* C17 witness: the precondition of an update has just failed and the call has
\* ended with LockConflict; the object is another version than the one it read
C17_UpdateLost ==
    \E t \in Threads :
        /\ last.thread = t /\ last.step = "AcquireUpdate"
        /\ last.req = "update_lock"
        /\ last.result = "LockConflictError"
        /\ th[t] = IdleThread
        /\ \E l \in LockNames : store[l].metageneration > 1

\* Version v is not older than version w: generations grow with every create,
\* metagenerations with every update of a generation
NotOlder(v, w) == v[1] > w[1] \/ (v[1] = w[1] /\ v[2] >= w[2])

\* The LockStates that the acquires of client c have returned for lock l
Returned(c, l) ==
    {h \in issued : h.gcs_lock = c /\ h.bucket = BucketOf(c) /\ h.lock_id = l}

\* C18: a step of a release by a client with owner A never removes an object
\* whose recorded owner is another owner; whenever the delete of a release
\* removes the object, the object is recorded for A, it is the version and the
\* record of A's cache entry, and it is the version that the last acquire
\* returned to A for the lock wrote.
C18_DeletesOwnWrite ==
    [][\A t \in Threads :
          (last'.thread = t /\ th[t].op = "release") =>
            LET c == ClientOf(t)
                l == th[t].lock_state.lock_id
                obj == store[l]
                mine == th[t].lock_instance
            IN  /\ \A k \in LockNames : k # l => store'[k] = store[k]
                /\ obj.lock_owner # OwnerOf(c) => store' = store
                /\ store' # store =>
                      /\ last'.step = "ReleaseDelete"
                      /\ store'[l] = NoObject
                      /\ obj.lock_owner = OwnerOf(c)
                      /\ mine = ResponseToLockInfo(BucketOf(c), l, obj)
                      /\ mine = cache[c][<<BucketOf(c), l>>].value
                      /\ \E h \in Returned(c, l) :
                            /\ h.id = Tokens(obj)
                            /\ \A g \in Returned(c, l) : NotOlder(h.id, g.id)]_vars

\* C18 witness: the delete of a release has just removed the object, after the
\* object was held by another owner in between (the deleted version is a
\* takeover or a later generation) 
C18_OwnObjectDeleted ==
    /\ last.step = "ReleaseDelete"
    /\ last.status = 204
    /\ \E l \in LockNames : store[l] = NoObject
    /\ \E h \in issued : h.gcs_lock # ClientOf(last.thread)
    /\ \E h \in issued : h.gcs_lock = ClientOf(last.thread)

\* LockState h was returned by an acquire and is not past its expires_at; no
\* release of it has returned, and since it was returned its client has begun
\* no release for its key at all (the entry of its key is still in the table)
HeldHandle(h) ==
    /\ h \in issued
    /\ h.id \notin released
    /\ now <= h.expires_at
    /\ cache[h.gcs_lock][LockStateId(h)].present
    /\ \A t \in Threads : ClientOf(t) = h.gcs_lock => th[t].op # "release"

\* C19 (the claim as stated): at no time do two clients with different owners
\* both have, for the same lock name, a LockState that an acquire returned, that
\* has not been released and that is not past its expires_at.
C19_MutualExclusion ==
    \A h1, h2 \in issued :
        (/\ h1.lock_owner # h2.lock_owner
         /\ h1.bucket = h2.bucket
         /\ h1.lock_id = h2.lock_id
         /\ HeldHandle(h1)) => ~HeldHandle(h2)

\* No thread of client c is between the answer to its write and the insertion
\* of the response in the table
NoneStoring(c) ==
    \A t \in Threads : ClientOf(t) = c => th[t].pc # "store"

\* C20 (the claim as stated): with several threads of one client acquiring and
\* releasing the same lock, whenever no acquire of the client has a response
\* left to insert, a live entry of the table has the generation and the
\* metageneration of the client's most recent write of the object, which is
\* the object in the store as long as it is there and recorded for the
\* client's owner.
C20_EntryIsLastWrite ==
    \A c \in Clients : \A l \in LockNames :
        (/\ LiveEntry(c, <<BucketOf(c), l>>)
         /\ NoneStoring(c)
         /\ store[l].generation # 0
         /\ store[l].lock_owner = OwnerOf(c)) =>
            Tokens(cache[c][<<BucketOf(c), l>>].value) = Tokens(store[l])

====
